---- MODULE Spec2Model ----
(***************************************************************************)
(* State-machine model of src/x86/linux/init.c: cpuinfo_x86_linux_init and *)
(* cpuinfo_x86_count_objects.                                              *)
(*                                                                         *)
(* A uint32_t value is represented by the integer with the same 32-bit     *)
(* two's-complement pattern, so UINT32_MAX is -1 and UINT32_MAX + 1 is 0.  *)
(* Heap blocks are numbered from 1 in allocation order; pointer 0 is NULL. *)
(* A C array a[0..n-1] is the sequence data[1..n] of its block.            *)
(* Payload fields that take no part in grouping or linking (vendor, uarch, *)
(* cpuid, brand string) are copied verbatim by the code and are not        *)
(* carried by the model.  The payload of a cache record is carried: a      *)
(* record stored past the end of its array leaves it in a neighbour.       *)
(* A 4-byte field that a pointer was stored over holds a half of that      *)
(* address; the model keeps it as the half of the address of the element   *)
(* pointed to and gives the address no number, which the program does not  *)
(* fix.                                                                    *)
(* Field offsets and lengths stay below 32: a shift by 32 or more is       *)
(* undefined in C.                                                         *)
(***************************************************************************)
EXTENDS Integers, Sequences, FiniteSets, TLC

\* ---------------------------------------------------------------- bounds
MaxLinuxId == 2
MaxApicId == 2
MaxCalls == 2

\* ------------------------------------------------------------- constants
UINT32_MAX == -1
NULL == 0

LevelSet == {"l1i", "l1d", "l2", "l3", "l4"}

\* a logical id beyond the dense ones: the kernel numbers the processors
\* that are possible, and the ids of those present need not be 0..n-1
FarLinuxId == MaxLinuxId + 2

LinuxIds == (0..MaxLinuxId) \cup {FarLinuxId}

\* ------------------------------------------------ identifier decomposition
Pow2(n) == 2 ^ n

\* (UINT32_C(1) << bits) - UINT32_C(1), for bits below 32
bit_mask(bits) == IF bits = 31 THEN 2147483647 ELSE Pow2(bits) - 1

\* x with bit 31 cleared
Low31(x) == IF x >= 0 THEN x ELSE (x + 2147483647) + 1

\* x & bit_mask(bits)
LowBits(x, bits) == IF bits = 31 THEN Low31(x) ELSE x % (bit_mask(bits) + 1)

\* x >> count, the logical shift of a uint32_t, for count below 32
ShiftRight(x, count) ==
    IF count = 0 THEN x
    ELSE IF count = 31 THEN (IF x < 0 THEN 1 ELSE 0)
    ELSE IF x >= 0 THEN x \div Pow2(count)
    ELSE Low31(x) \div Pow2(count) + Pow2(31 - count)

\* (x >> offset) & bit_mask(length)
ExtractField(x, offset, length) == LowBits(ShiftRight(x, offset), length)

\* x & ~(bit_mask(length) << offset); the bits the shift moves past bit 31
\* are lost, so a field that reaches bit 31 clears every bit from offset up
MaskOutField(x, offset, length) ==
    LowBits(x, offset)
      + (IF offset + length >= 32 THEN 0 ELSE x - LowBits(x, offset + length))

\* unsigned comparison id_a < id_b of two uint32_t values
ULess(a, b) == IF (a >= 0) = (b >= 0) THEN a < b ELSE a >= 0

cmp_x86_processor_by_apic_id(pa, pb) ==
    IF ULess(pa.topology.apic_id, pb.topology.apic_id) THEN -1
    ELSE IF ULess(pb.topology.apic_id, pa.topology.apic_id) THEN 1 ELSE 0

\* x + 1 on a uint32_t: 0x7FFFFFFF + 1 is 0x80000000, the pattern of the
\* least 32-bit integer, and UINT32_MAX + 1 is 0
U32Inc(x) == IF x = 2147483647 THEN -2147483647 - 1 ELSE x + 1

CoreId(d) ==
    MaskOutField(d.topology.apic_id, d.topology.thread_bits_offset, d.topology.thread_bits_length)

PackageId(d) ==
    MaskOutField(CoreId(d), d.topology.core_bits_offset, d.topology.core_bits_length)

CacheId(d, lv) == MaskOutField(d.topology.apic_id, 0, d.cache[lv].apic_bits)

\* ------------------------------------------------------------------ qsort
\* qsort leaves elements that compare equal in an unspecified order: the
\* outcomes are all the arrangements of the array in which no element
\* compares greater than its successor.
\* the sorted arrays that hold d and the elements of the sorted array s
InsertSorted(s, d) ==
    {SubSeq(s, 1, k) \o <<d>> \o SubSeq(s, k + 1, Len(s)) :
       k \in {j \in 0..Len(s) :
                /\ j = 0 \/ cmp_x86_processor_by_apic_id(s[j], d) <= 0
                /\ j = Len(s) \/ cmp_x86_processor_by_apic_id(d, s[j + 1]) <= 0}}

\* the outcomes of qsort(s, Len(s), ..., cmp_x86_processor_by_apic_id)
RECURSIVE QSort(_)
QSort(s) ==
    IF s = <<>> THEN {<<>>}
    ELSE UNION {InsertSorted(t, Head(s)) : t \in QSort(Tail(s))}

\* ----------------------------------------------- cpuinfo_x86_count_objects
CountInit ==
    [cores_count |-> 0, packages_count |-> 0,
     count |-> [lv \in LevelSet |-> 0],
     last_core_id |-> UINT32_MAX, last_package_id |-> UINT32_MAX,
     last_id |-> [lv \in LevelSet |-> UINT32_MAX]]

\* one "if (processors[i].cache.<lv>.size != 0) { ... }" block; it has no
\* else branch, so last_id is left alone when the size is 0
CountCache(c, d, lv) ==
    IF d.cache[lv].size # 0 /\ CacheId(d, lv) # c.last_id[lv]
    THEN [c EXCEPT !.last_id[lv] = CacheId(d, lv), !.count[lv] = U32Inc(@)]
    ELSE c

CountCoreStep(c, d) ==
    IF CoreId(d) # c.last_core_id
    THEN [c EXCEPT !.last_core_id = CoreId(d), !.cores_count = U32Inc(@)]
    ELSE c

CountPackageStep(c, d) ==
    IF PackageId(d) # c.last_package_id
    THEN [c EXCEPT !.last_package_id = PackageId(d), !.packages_count = U32Inc(@)]
    ELSE c

CountStep(c, d) ==
    LET c1 == CountCoreStep(c, d)
        c2 == CountPackageStep(c1, d)
        c3 == CountCache(c2, d, "l1i")
        c4 == CountCache(c3, d, "l1d")
        c5 == CountCache(c4, d, "l2")
        c6 == CountCache(c5, d, "l3")
    IN  CountCache(c6, d, "l4")

\* the loop of lines 48-99: iteration i works on what iteration i - 1 left
RECURSIVE CountLoop(_, _, _)
CountLoop(x86, i, c) ==
    IF i >= Len(x86) THEN c
    ELSE LET after == {CountStep(c, x86[i + 1])}
         IN  CHOOSE r \in {CountLoop(x86, i + 1, next) : next \in after} : TRUE

cpuinfo_x86_count_objects(x86) == CountLoop(x86, 0, CountInit)

\* ------------------------------------------------------ records and heap
Ref(blk, idx) == [blk |-> blk, idx |-> idx]

NullRef == Ref(NULL, 0)

ZeroX86Processor ==
    [linux_id |-> 0,
     topology |-> [apic_id |-> 0, thread_bits_offset |-> 0, thread_bits_length |-> 0,
                   core_bits_offset |-> 0, core_bits_length |-> 0],
     cache |-> [lv \in LevelSet |->
                  [size |-> 0, associativity |-> 0, sets |-> 0, partitions |-> 0,
                   line_size |-> 0, flags |-> 0, apic_bits |-> 0]]]

ZeroProcessor ==
    [smt_id |-> 0, core |-> NullRef, package |-> NullRef, linux_id |-> 0, apic_id |-> 0,
     cache |-> [lv \in LevelSet |-> NullRef]]

ZeroCore == [processor_start |-> 0, processor_count |-> 0, core_id |-> 0, package |-> NullRef]

ZeroPackage == [processor_start |-> 0, processor_count |-> 0, core_start |-> 0, core_count |-> 0]

ZeroCache ==
    [size |-> 0, associativity |-> 0, sets |-> 0, partitions |-> 0, line_size |-> 0,
     flags |-> 0, processor_start |-> 0, processor_count |-> 0]

\* the block calloc(n, sizeof(zero)) returns when it succeeds
\* overrun: a store has gone past the end of the block
Block(n, zero) ==
    [live |-> TRUE, frees |-> 0, overrun |-> FALSE, data |-> [k \in 1..n |-> zero]]

\* a store past the end of a block may have damaged the allocator's records
HeapCorrupt(h) == \E p \in DOMAIN h : h[p].overrun

\* free(p): a no-op for NULL
Free(h, p) ==
    IF p = NULL THEN h
    ELSE [h EXCEPT ![p].live = FALSE, ![p].frees = @ + 1]

RECURSIVE FreeAll(_, _)
FreeAll(h, ps) == IF ps = <<>> THEN h ELSE FreeAll(Free(h, Head(ps)), Tail(ps))

Data(h, p) == IF p = NULL THEN <<>> ELSE h[p].data

\* ------------------------------------------------------------- build pass
InExtent(arr, k) == k >= 0 /\ k < Len(arr)

\* the record of lines 332-341 for the cache c of processor i
CacheRecord(c, i) ==
    [size |-> c.size, associativity |-> c.associativity, sets |-> c.sets,
     partitions |-> c.partitions, line_size |-> c.line_size, flags |-> c.flags,
     processor_start |-> i, processor_count |-> 1]

\* A store outside the extent of its array lands where the allocator has
\* placed something else.  The arrays are allocated one after the other
\* (lines 197-262), and the allocator of the build (glibc, 64-bit) lays
\* successive blocks out next to each other: a block of w 4-byte words
\* occupies a chunk of w + 2 words rounded up to a multiple of 4, at least
\* 8, and the next block begins where the chunk ends.
ChunkWords(w) == IF 4 * ((w + 5) \div 4) < 8 THEN 8 ELSE 4 * ((w + 5) \div 4)

\* the arrays the build pass stores to that are allocated after processors,
\* in allocation order (lines 197-262)
Arrays ==
    <<"linux_cpu_to_processor_map", "linux_cpu_to_core_map", "cores", "packages",
      "l1i", "l1d", "l2", "l3", "l4">>

Tables == {"linux_cpu_to_processor_map", "linux_cpu_to_core_map"}

\* The field at each 4-byte word of an element; "" is a word the model does
\* not carry.  An entry of a lookup table is a pointer, two words.
PointerFields == <<"pointer", "pointer">>

\* struct cpuinfo_cache, in the order of lines 333-340
CacheFields ==
    <<"size", "associativity", "sets", "partitions", "line_size", "flags",
      "processor_start", "processor_count">>

\* struct cpuinfo_core, in the order of lines 295-303: three 4-byte fields,
\* padding, the 8-byte aligned pointer, then vendor, uarch, cpuid, padding
CoreFields ==
    <<"processor_start", "processor_count", "core_id", "", "package", "package",
      "", "", "", "">>

\* struct cpuinfo_package: the 48 bytes of name (line 316), then the four
\* counters of lines 304 and 313-315
PackageFields ==
    [w \in 1..16 |->
       IF w <= 12 THEN ""
       ELSE <<"processor_start", "processor_count", "core_start", "core_count">>[w - 12]]

ElementFields(arr) ==
    IF arr \in Tables THEN PointerFields
    ELSE IF arr = "cores" THEN CoreFields
    ELSE IF arr = "packages" THEN PackageFields
    ELSE CacheFields

ElementWords(arr) == Len(ElementFields(arr))

\* the lookup tables, cores and packages are allocated whatever their count
\* (lines 197-222); a cache level of count 0 has no block (lines 223-262)
HasBlock(b, arr) == arr \notin LevelSet \/ b[arr] # <<>>

BlockWords(b, arr) ==
    IF HasBlock(b, arr) THEN ChunkWords(ElementWords(arr) * Len(b[arr])) ELSE 0

\* the word address of element 0 of Arrays[j], counted from the first table.
\* The build pass computes it once (b.base): no array changes its length.
RECURSIVE Base(_, _)
Base(b, j) == IF j <= 1 THEN 0 ELSE Base(b, j - 1) + BlockWords(b, Arrays[j - 1])

ArrayIndex(arr) == CHOOSE j \in 1..Len(Arrays) : Arrays[j] = arr

\* the word address of word w of arr[k]
WordAddress(b, arr, k, w) == b.base[ArrayIndex(arr)] + ElementWords(arr) * k + w

\* the array element and the word within it that lie at word address a;
\* arr is "" when no element of an array lies there (chunk boundaries,
\* memory behind the last block)
CellAt(b, a) ==
    LET hits == {j \in 1..Len(Arrays) :
                   /\ a >= b.base[j]
                   /\ a < b.base[j] + ElementWords(Arrays[j]) * Len(b[Arrays[j]])}
    IN  IF hits = {} THEN [arr |-> "", e |-> 0, w |-> 0, field |-> ""]
        ELSE LET j == CHOOSE i \in hits : TRUE
             IN  [arr |-> Arrays[j],
                  e |-> (a - b.base[j]) \div ElementWords(Arrays[j]),
                  w |-> (a - b.base[j]) % ElementWords(Arrays[j]),
                  field |-> ElementFields(Arrays[j])[((a - b.base[j]) % ElementWords(Arrays[j])) + 1]]

\* the field at word address a, "" when the model carries none there
FieldAt(b, a) == CellAt(b, a).field

\* The number an address has is not fixed by the program: it is the
\* allocator's and the loader's choice and differs from run to run.  A 4-byte
\* field that a pointer was stored over holds one half of the address, kept
\* as what it is: the low or high 32 bits of the address ref, plus what was
\* added to the field since.
AddressWord(ref, half) == [address |-> ref, half |-> half, plus |-> 0]

\* x is a word of an address, not a number (a number has at most 11 characters)
IsAddressWord(x) == Len(ToString(x)) > 11

\* x + 1 on a uint32_t field
Inc(x) == IF IsAddressWord(x) THEN [x EXCEPT !.plus = U32Inc(@)] ELSE U32Inc(x)

\* the 4-byte store of v to the cell c.  Numbers are stored only by the
\* cache blocks and only behind a cache array, where no pointer lies.
StoreCell(b, c, v) ==
    IF c.field \in {"", "pointer", "package"} THEN b
    ELSE [b EXCEPT ![c.arr][c.e + 1][c.field] = v]

\* the 4-byte store *a = v
StoreWord(b, a, v) == StoreCell(b, CellAt(b, a), v)

\* the 4-byte read-modify-write on the cell c
IncCell(b, c) ==
    IF c.field \in {"", "pointer", "package"} THEN b
    ELSE [b EXCEPT ![c.arr][c.e + 1][c.field] = Inc(@)]

\* the 4-byte read-modify-write *a += 1
IncWord(b, a) == IncCell(b, CellAt(b, a))

\* the 8-byte store of the pointer ref to the cell c and the word behind it:
\* over a pointer it replaces the pointer, over 4-byte fields it leaves the
\* two halves of the address
StorePointerCell(b, a, c, ref) ==
    IF c.field = "pointer" THEN [b EXCEPT ![c.arr][c.e + 1] = ref]
    ELSE IF c.field = "package" THEN [b EXCEPT ![c.arr][c.e + 1].package = ref]
    ELSE StoreWord(StoreCell(b, c, AddressWord(ref, "low")), a + 1, AddressWord(ref, "high"))

\* the 8-byte store *a = ref of a pointer
StorePointer(b, a, ref) == StorePointerCell(b, a, CellAt(b, a), ref)

\* the stores of the words w, w + 1, ... of the cache record val from word
\* address a on
RECURSIVE StoreRecord(_, _, _, _)
StoreRecord(b, a, val, w) ==
    IF w >= Len(CacheFields) THEN b
    ELSE StoreRecord(StoreWord(b, a + w, val[CacheFields[w + 1]]), a, val, w + 1)

\* where a store to arr[k] outside the extent of arr lands when the blocks
\* lie next to each other.  An index of UINT32_MAX is 4G elements away from
\* the array, outside every block; a cache array of count 0 is NULL.
Stray(b, arr, k, val) ==
    IF k < 0 \/ ~HasBlock(b, arr) THEN b
    ELSE IF arr \in LevelSet THEN StoreRecord(b, WordAddress(b, arr, k, 0), val, 0)
    ELSE IF arr \in Tables THEN StorePointer(b, WordAddress(b, arr, k, 0), val)
    ELSE b

\* arr[k].processor_count += 1 with k outside the extent of arr
StrayIncrement(b, arr, k) ==
    IF k < 0 \/ ~HasBlock(b, arr) \/ arr \notin LevelSet THEN b
    ELSE IncWord(b, WordAddress(b, arr, k, Len(CacheFields) - 1))

\* a store outside the extent of arr is recorded in oob
OutOfExtent(b, arr, k) == [b EXCEPT !.oob = @ \cup {<<arr, k>>}]

\* arr[k] = val.  A store outside the extent of arr is undefined behaviour:
\* it lands in memory nothing uses, or (b.adjacent) in the blocks that lie
\* behind the array
Store(b, arr, k, val) ==
    IF InExtent(b[arr], k) THEN [b EXCEPT ![arr][k + 1] = val]
    ELSE IF b.adjacent THEN Stray(OutOfExtent(b, arr, k), arr, k, val)
    ELSE OutOfExtent(b, arr, k)

\* arr[k].processor_count++
IncProcessorCount(b, arr, k) ==
    IF InExtent(b[arr], k) THEN [b EXCEPT ![arr][k + 1].processor_count = Inc(@)]
    ELSE IF b.adjacent THEN StrayIncrement(OutOfExtent(b, arr, k), arr, k)
    ELSE OutOfExtent(b, arr, k)

BuildInit(loc, h, adjacent) ==
    LET arrays == [arr \in {Arrays[j] : j \in 1..Len(Arrays)} |-> Data(h, loc[arr])]
    IN
    [adjacent |-> adjacent,
     base |-> [j \in 1..Len(Arrays) |-> Base(arrays, j)],
     processors |-> Data(h, loc.processors),
     cores |-> Data(h, loc.cores),
     packages |-> Data(h, loc.packages),
     l1i |-> Data(h, loc.l1i), l1d |-> Data(h, loc.l1d), l2 |-> Data(h, loc.l2),
     l3 |-> Data(h, loc.l3), l4 |-> Data(h, loc.l4),
     linux_cpu_to_processor_map |-> Data(h, loc.linux_cpu_to_processor_map),
     linux_cpu_to_core_map |-> Data(h, loc.linux_cpu_to_core_map),
     core_index |-> UINT32_MAX, package_index |-> UINT32_MAX,
     index |-> [lv \in LevelSet |-> UINT32_MAX],
     last_core_id |-> UINT32_MAX, last_package_id |-> UINT32_MAX,
     last_id |-> [lv \in LevelSet |-> UINT32_MAX],
     oob |-> {}]

\* lines 270-291: indices and the processor's topology fields
BuildTopology(b, d, i, loc) ==
    LET core_index == IF CoreId(d) # b.last_core_id THEN U32Inc(b.core_index) ELSE b.core_index
        package_index == IF PackageId(d) # b.last_package_id THEN U32Inc(b.package_index)
                         ELSE b.package_index
        b1 == [b EXCEPT !.core_index = core_index, !.package_index = package_index]
        p == [b.processors[i + 1] EXCEPT
                !.smt_id = ExtractField(d.topology.apic_id, d.topology.thread_bits_offset,
                                        d.topology.thread_bits_length),
                !.core = Ref(loc.cores, core_index),
                !.package = Ref(loc.packages, package_index),
                !.linux_id = d.linux_id,
                !.apic_id = d.topology.apic_id]
    IN  Store(b1, "processors", i, p)

\* lines 293-309
BuildCore(b, d, i, loc) ==
    IF CoreId(d) # b.last_core_id
    THEN LET b1 == Store(b, "cores", b.core_index,
                         [processor_start |-> i, processor_count |-> 1, core_id |-> CoreId(d),
                          package |-> Ref(loc.packages, b.package_index)])
             b2 == IF InExtent(b1.packages, b1.package_index)
                   THEN [b1 EXCEPT !.packages[b1.package_index + 1].core_count = Inc(@)]
                   ELSE OutOfExtent(b1, "packages", b1.package_index)
         IN  [b2 EXCEPT !.last_core_id = CoreId(d)]
    ELSE IncProcessorCount(b, "cores", b.core_index)

\* lines 311-321
BuildPackage(b, d, i) ==
    IF PackageId(d) # b.last_package_id
    THEN LET b1 == IF InExtent(b.packages, b.package_index)
                   THEN [b EXCEPT !.packages[b.package_index + 1].processor_start = i,
                                  !.packages[b.package_index + 1].processor_count = 1,
                                  !.packages[b.package_index + 1].core_start = b.core_index]
                   ELSE OutOfExtent(b, "packages", b.package_index)
         IN  [b1 EXCEPT !.last_package_id = PackageId(d)]
    ELSE IncProcessorCount(b, "packages", b.package_index)

\* lines 323-324
BuildMaps(b, d, i, loc) ==
    LET b1 == Store(b, "linux_cpu_to_processor_map", d.linux_id, Ref(loc.processors, i))
    IN  Store(b1, "linux_cpu_to_core_map", d.linux_id, Ref(loc.cores, b1.core_index))

BuildCacheRefWhenAbsent(b, d, i, loc, lv) ==
    IF d.cache[lv].size # 0
    THEN LET b1 == [b EXCEPT !.processors[i + 1].cache[lv] = Ref(loc[lv], b.index[lv])]
         IN  IF CacheId(d, lv) # b1.last_id[lv]
             THEN LET b2 == [b1 EXCEPT !.last_id[lv] = CacheId(d, lv),
                                       !.index[lv] = U32Inc(@)]
                  IN  Store(b2, lv, b2.index[lv], CacheRecord(d.cache[lv], i))
             ELSE IncProcessorCount(b1, lv, b1.index[lv])
    ELSE [b EXCEPT !.last_id[lv] = UINT32_MAX,
                   !.processors[i + 1].cache[lv] = Ref(loc[lv], b.index[lv])]

\* one "if (x86_processors[i].cache.<lv>.size != 0) { ... } else { ... }" block;
\* the processor's reference is taken before the index is advanced
BuildCache(b, d, i, loc, lv) ==
    IF d.cache[lv].size # 0
    THEN LET b1 == [b EXCEPT !.processors[i + 1].cache[lv] = Ref(loc[lv], b.index[lv])]
         IN  IF CacheId(d, lv) # b1.last_id[lv]
             THEN LET b2 == [b1 EXCEPT !.last_id[lv] = CacheId(d, lv),
                                       !.index[lv] = U32Inc(@)]
                  IN  Store(b2, lv, b2.index[lv], CacheRecord(d.cache[lv], i))
             ELSE IncProcessorCount(b1, lv, b1.index[lv])
    ELSE [b EXCEPT !.last_id[lv] = UINT32_MAX]

\* the body of the loop of lines 269-470; the L1I block occurs twice
BuildStep(b, d, i, loc) ==
    LET b1 == BuildTopology(b, d, i, loc)
        b2 == BuildCore(b1, d, i, loc)
        b3 == BuildPackage(b2, d, i)
        b4 == BuildMaps(b3, d, i, loc)
        b5 == BuildCache(b4, d, i, loc, "l1i")
        b6 == BuildCache(b5, d, i, loc, "l1i")
        b7 == BuildCache(b6, d, i, loc, "l1d")
        b8 == BuildCache(b7, d, i, loc, "l2")
        b9 == BuildCache(b8, d, i, loc, "l3")
    IN  BuildCache(b9, d, i, loc, "l4")

\* the loop of lines 269-470: iteration i works on what iteration i - 1 left
RECURSIVE BuildLoop(_, _, _, _)
BuildLoop(b, x86, i, loc) ==
    IF i >= Len(x86) THEN b
    ELSE LET after == {BuildStep(b, x86[i + 1], i, loc)}
         IN  CHOOSE r \in {BuildLoop(next, x86, i + 1, loc) : next \in after} : TRUE

\* ------------------------------------------------------------------ state
VARIABLES
    pc,        \* position in cpuinfo_x86_linux_init
    hw,        \* the machine: present and possible id sets, descriptor per logical id
    affinity,  \* execution-affinity mask of the calling thread
    heap,      \* sequence of blocks ever returned by calloc
    local,     \* the local variables of cpuinfo_x86_linux_init
    global,    \* the process-wide snapshot variables
    entry,     \* history: global, affinity and heap size at entry of the current call
    trace,     \* history: what the current call has done so far
    calls      \* number of calls started

vars == <<pc, hw, affinity, heap, local, global, entry, trace, calls>>

LocalInit ==
    [linux_cpu_to_processor_map |-> NULL, linux_cpu_to_core_map |-> NULL,
     x86_processors |-> NULL, processors |-> NULL, packages |-> NULL, cores |-> NULL,
     l1i |-> NULL, l1d |-> NULL, l2 |-> NULL, l3 |-> NULL, l4 |-> NULL,
     old_affinity |-> {}, processors_set |-> {}, processors_count |-> 0,
     processor_bit |-> 0, i |-> 0,
     packages_count |-> 0, cores_count |-> 0,
     l1i_count |-> 0, l1d_count |-> 0, l2_count |-> 0, l3_count |-> 0, l4_count |-> 0]

GlobalInit ==
    [cpuinfo_linux_cpu_to_processor_map |-> NULL, cpuinfo_linux_cpu_to_core_map |-> NULL,
     cpuinfo_processors |-> NULL, cpuinfo_cores |-> NULL, cpuinfo_packages |-> NULL,
     cpuinfo_cache |-> [lv \in LevelSet |-> NULL],
     cpuinfo_processors_count |-> 0, cpuinfo_cores_count |-> 0, cpuinfo_packages_count |-> 0,
     cpuinfo_cache_count |-> [lv \in LevelSet |-> 0]]

\* the keys records are grouped by: cores, packages and the cache levels
GroupKeys == {"cores", "packages"} \cup LevelSet

\* described: one entry per describer invocation, in order; built: the number
\* of records the build pass initialised for each grouping key
TraceInit ==
    [failed |-> "", committed |-> FALSE, pinned |-> FALSE, restore |-> "none", oob |-> {},
     described |-> <<>>, built |-> [k \in GroupKeys |-> 0]]

LevelCount(loc, lv) ==
    CASE lv = "l1i" -> loc.l1i_count
      [] lv = "l1d" -> loc.l1d_count
      [] lv = "l2" -> loc.l2_count
      [] lv = "l3" -> loc.l3_count
      [] lv = "l4" -> loc.l4_count

\* the outcomes of calloc(n, ...): NULL, or a fresh zeroed block of n elements
Calloc(h, n, zero) ==
    {[heap |-> h, ptr |-> NULL], [heap |-> Append(h, Block(n, zero)), ptr |-> Len(h) + 1]}

\* --------------------------------------------------------------- machines
\* Descriptor the describer produces for one logical processor
Descriptor(apic_id, tbits, cbits, inner, outer, present) ==
    [linux_id |-> 0,
     topology |-> [apic_id |-> apic_id, thread_bits_offset |-> 0, thread_bits_length |-> tbits,
                   core_bits_offset |-> tbits, core_bits_length |-> cbits],
     cache |-> [lv \in LevelSet |->
                  [size |-> IF lv \in present THEN 32 ELSE 0,
                   associativity |-> IF lv \in present THEN 8 ELSE 0,
                   sets |-> IF lv \in present THEN 16 ELSE 0,
                   partitions |-> IF lv \in present THEN 1 ELSE 0,
                   line_size |-> IF lv \in present THEN 64 ELSE 0,
                   flags |-> IF lv \in present THEN 2 ELSE 0,
                   apic_bits |-> IF lv \in {"l1i", "l1d", "l2"} THEN inner ELSE outer]]]

ThreadBitsChoices == {0, 1}
CoreBitsChoices == {0, 1}
InnerLevels == {"l1i", "l1d", "l2"}
OuterBits == 2

\* number of elements of S below x
Rank(S, x) == Cardinality({y \in S : y < x})

\* the orders in which identifiers are handed out along ascending logical
\* ids: ascending, descending, rotated by one
RankOrders(n) ==
    {[r \in 0..(n - 1) |-> r], [r \in 0..(n - 1) |-> n - 1 - r],
     [r \in 0..(n - 1) |-> (r + 1) % n]}

\* pairwise distinct identifiers for the logical ids S: a window of
\* consecutive identifiers of apicIds handed out in one of the orders
ApicAssignments(S, apicIds) ==
    LET n == Cardinality(S)
    IN  {[c \in S |-> lo + ord[Rank(S, c)]] :
           lo \in {a \in apicIds : a + n - 1 \in apicIds}, ord \in RankOrders(n)}

\* the levels at which each processor of S reports a non-zero size: all
\* levels everywhere, the inner levels only, none, or all but for one
\* processor that reports no cache
CacheProfiles(S) ==
    {[c \in S |-> LevelSet], [c \in S |-> InnerLevels], [c \in S |-> {}]}
    \cup {[c \in S |-> IF c = x THEN {} ELSE LevelSet] : x \in S}

\* the sets of present logical ids: any set of the dense ids, and the far
\* id alone or with one dense id
PresentSets ==
    (SUBSET (0..MaxLinuxId))
      \cup {{FarLinuxId}} \cup {{c, FarLinuxId} : c \in 0..MaxLinuxId}

\* The machines: a set of present logical ids (every id is possible),
\* pairwise distinct identifiers and one field layout for the whole machine.
Machines(apicIds) ==
    UNION {
      {[present |-> present, possible |-> LinuxIds,
        desc |-> [c \in present |->
                    Descriptor(apic[c], tbits, cbits, tbits, OuterBits, prof[c])]] :
          apic \in ApicAssignments(present, apicIds),
          prof \in CacheProfiles(present),
          tbits \in ThreadBitsChoices, cbits \in CoreBitsChoices} :
      present \in PresentSets}

InitWith(machines) ==
    /\ hw \in machines
    /\ pc = "entry"
    /\ affinity = LinuxIds
    /\ heap = <<>>
    /\ local = LocalInit
    /\ global = GlobalInit
    /\ entry = [global |-> GlobalInit, affinity |-> LinuxIds, heap_len |-> 0]
    /\ trace = TraceInit
    /\ calls = 0

Init == InitWith(Machines(0..MaxApicId))

\* ---------------------------------------------------------------- actions
Fail(step) == trace' = [trace EXCEPT !.failed = step]

\* lines 117-134: a call starts; sched_getaffinity.  The caller invokes the
\* function once, and again only after a call that published a snapshot.
Enter ==
    /\ \/ pc = "entry"
       \/ pc = "returned" /\ trace.committed
    /\ calls < MaxCalls
    /\ calls' = calls + 1
    /\ entry' = [global |-> global, affinity |-> affinity, heap_len |-> Len(heap)]
    /\ \/ /\ local' = [LocalInit EXCEPT !.old_affinity = affinity]
          /\ trace' = TraceInit
          /\ pc' = "alloc_x86"
       \/ /\ local' = LocalInit
          /\ trace' = [TraceInit EXCEPT !.failed = "sched_getaffinity"]
          /\ pc' = "returned"
    /\ UNCHANGED <<hw, affinity, heap, global>>

\* the process is terminated: its memory is gone
Terminated ==
    /\ pc' = "crashed"
    /\ heap' = <<>>
    /\ local' = LocalInit
    /\ global' = GlobalInit
    /\ trace' = TraceInit
    /\ UNCHANGED <<hw, affinity, entry, calls>>

\* calloc or free finds the allocator's records damaged and terminates the
\* process (abort)
Aborts == HeapCorrupt(heap) /\ Terminated

\* lines 136-154: the processor set and the raw descriptor array
AllocX86 ==
    /\ pc = "alloc_x86"
    /\ \/ /\ LET processors_set == hw.present \cap hw.possible
                 processors_count == Cardinality(processors_set)
             IN  \E r \in Calloc(heap, processors_count, ZeroX86Processor) :
                   /\ heap' = r.heap
                   /\ local' = [local EXCEPT !.processors_set = processors_set,
                                             !.processors_count = processors_count,
                                             !.x86_processors = r.ptr]
                   /\ IF r.ptr = NULL
                      THEN pc' = "cleanup" /\ Fail("x86_processors")
                      ELSE pc' = "pin" /\ UNCHANGED trace
          /\ UNCHANGED <<hw, affinity, global, entry, calls>>
       \/ Aborts

\* the next set bit at or after processor_bit (lines 158-160)
NextBit(set, bit) == CHOOSE c \in set : c >= bit /\ \A e \in set : e >= bit => c <= e

\* what cpuinfo_x86_init_processor leaves in the descriptor it is handed: the
\* description of the processor the thread runs on, or, when it fails, the
\* zeroed element untouched
Describe(x86_processor, cpu, ok) == IF ok THEN hw.desc[cpu] ELSE x86_processor

PinWithoutPinning(outcomes) ==
    /\ pc = "pin"
    /\ local.i < local.processors_count
    /\ LET processor_bit == NextBit(local.processors_set, local.processor_bit)
       IN  \/ /\ affinity' = local.processors_set
              /\ \E ok \in outcomes :
                   /\ heap' = [heap EXCEPT ![local.x86_processors].data[local.i + 1] =
                                 [Describe(@, CHOOSE c \in affinity' : TRUE, ok)
                                    EXCEPT !.linux_id = processor_bit]]
                   /\ trace' = [trace EXCEPT !.pinned = TRUE,
                                   !.described = Append(@,
                                      [cpu |-> processor_bit, affinity |-> affinity',
                                       linux_id |-> Data(heap', local.x86_processors)
                                                      [local.i + 1].linux_id,
                                       ok |-> ok])]
              /\ local' = [local EXCEPT !.i = @ + 1, !.processor_bit = processor_bit + 1]
              /\ pc' = "pin"
           \/ /\ local' = [local EXCEPT !.processor_bit = processor_bit]
              /\ pc' = "cleanup"
              /\ Fail("sched_setaffinity")
              /\ UNCHANGED <<affinity, heap>>
    /\ UNCHANGED <<hw, global, entry, calls>>

\* lines 157-172: one iteration of the collection loop; outcomes are the
\* outcomes the describer can have
PinWith(outcomes) ==
    /\ pc = "pin"
    /\ local.i < local.processors_count
    /\ LET processor_bit == NextBit(local.processors_set, local.processor_bit)
       IN  \/ /\ affinity' = {processor_bit}
              /\ \E ok \in outcomes :
                   /\ heap' = [heap EXCEPT ![local.x86_processors].data[local.i + 1] =
                                 [Describe(@, CHOOSE c \in affinity' : TRUE, ok)
                                    EXCEPT !.linux_id = processor_bit]]
                   /\ trace' = [trace EXCEPT !.pinned = TRUE,
                                   !.described = Append(@,
                                      [cpu |-> processor_bit, affinity |-> affinity',
                                       linux_id |-> Data(heap', local.x86_processors)
                                                      [local.i + 1].linux_id,
                                       ok |-> ok])]
              /\ local' = [local EXCEPT !.i = @ + 1, !.processor_bit = processor_bit + 1]
              /\ pc' = "pin"
           \/ /\ local' = [local EXCEPT !.processor_bit = processor_bit]
              /\ pc' = "cleanup"
              /\ Fail("sched_setaffinity")
              /\ UNCHANGED <<affinity, heap>>
    /\ UNCHANGED <<hw, global, entry, calls>>

\* the collection loop with a describer that succeeds
Pin == PinWith({TRUE})

\* lines 174-182: qsort, then the processors array
SortAllocProcessors ==
    /\ pc = "pin"
    /\ local.i >= local.processors_count
    /\ \/ /\ \E x86 \in QSort(Data(heap, local.x86_processors)) :
               LET sorted == [heap EXCEPT ![local.x86_processors].data = x86]
               IN  \E r \in Calloc(sorted, local.processors_count, ZeroProcessor) :
                     /\ heap' = r.heap
                     /\ local' = [local EXCEPT !.processors = r.ptr]
                     /\ IF r.ptr = NULL
                        THEN pc' = "cleanup" /\ Fail("processors")
                        ELSE pc' = "count" /\ UNCHANGED trace
          /\ UNCHANGED <<hw, affinity, global, entry, calls>>
       \/ Aborts

\* lines 184-202: the counting pass, then the processor lookup table
CountAllocProcessorMap ==
    /\ pc = "count"
    /\ \/ /\ LET c == cpuinfo_x86_count_objects(Data(heap, local.x86_processors))
             IN  \E r \in Calloc(heap, local.processors_count, NullRef) :
                   /\ heap' = r.heap
                   /\ local' = [local EXCEPT !.cores_count = c.cores_count,
                                             !.packages_count = c.packages_count,
                                             !.l1i_count = c.count["l1i"],
                                             !.l1d_count = c.count["l1d"],
                                             !.l2_count = c.count["l2"],
                                             !.l3_count = c.count["l3"],
                                             !.l4_count = c.count["l4"],
                                             !.linux_cpu_to_processor_map = r.ptr]
                   /\ IF r.ptr = NULL
                      THEN pc' = "cleanup" /\ Fail("linux_cpu_to_processor_map")
                      ELSE pc' = "alloc_core_map" /\ UNCHANGED trace
          /\ UNCHANGED <<hw, affinity, global, entry, calls>>
       \/ Aborts

\* lines 204-209
AllocCoreMap ==
    /\ pc = "alloc_core_map"
    /\ \/ /\ \E r \in Calloc(heap, local.cores_count, NullRef) :
               /\ heap' = r.heap
               /\ local' = [local EXCEPT !.linux_cpu_to_core_map = r.ptr]
               /\ IF r.ptr = NULL
                  THEN pc' = "cleanup" /\ Fail("linux_cpu_to_core_map")
                  ELSE pc' = "alloc_cores" /\ UNCHANGED trace
          /\ UNCHANGED <<hw, affinity, global, entry, calls>>
       \/ Aborts

\* lines 211-216
AllocCores ==
    /\ pc = "alloc_cores"
    /\ \/ /\ \E r \in Calloc(heap, local.cores_count, ZeroCore) :
               /\ heap' = r.heap
               /\ local' = [local EXCEPT !.cores = r.ptr]
               /\ IF r.ptr = NULL
                  THEN pc' = "cleanup" /\ Fail("cores")
                  ELSE pc' = "alloc_packages" /\ UNCHANGED trace
          /\ UNCHANGED <<hw, affinity, global, entry, calls>>
       \/ Aborts

\* lines 217-222
AllocPackages ==
    /\ pc = "alloc_packages"
    /\ \/ /\ \E r \in Calloc(heap, local.packages_count, ZeroPackage) :
               /\ heap' = r.heap
               /\ local' = [local EXCEPT !.packages = r.ptr]
               /\ IF r.ptr = NULL
                  THEN pc' = "cleanup" /\ Fail("packages")
                  ELSE pc' = "alloc_l1i" /\ UNCHANGED trace
          /\ UNCHANGED <<hw, affinity, global, entry, calls>>
       \/ Aborts

AllocPc(lv) == "alloc_" \o lv

AfterLevel(lv) ==
    CASE lv = "l1i" -> AllocPc("l1d")
      [] lv = "l1d" -> AllocPc("l2")
      [] lv = "l2" -> AllocPc("l3")
      [] lv = "l3" -> AllocPc("l4")
      [] lv = "l4" -> "build"

AllocCacheNoGoto(lv) ==
    /\ pc = AllocPc(lv)
    /\ IF LevelCount(local, lv) # 0
       THEN \E r \in Calloc(heap, LevelCount(local, lv), ZeroCache) :
              /\ heap' = r.heap
              /\ local' = [local EXCEPT ![lv] = r.ptr]
              /\ pc' = AfterLevel(lv)
              /\ IF r.ptr = NULL THEN Fail(lv) ELSE UNCHANGED trace
       ELSE pc' = AfterLevel(lv) /\ UNCHANGED <<heap, local, trace>>
    /\ UNCHANGED <<hw, affinity, global, entry, calls>>

\* lines 223-262: one "if (<lv>_count != 0) { <lv> = calloc(...); ... }" block
AllocCache(lv) ==
    /\ pc = AllocPc(lv)
    /\ \/ /\ IF LevelCount(local, lv) # 0
             THEN \E r \in Calloc(heap, LevelCount(local, lv), ZeroCache) :
                    /\ heap' = r.heap
                    /\ local' = [local EXCEPT ![lv] = r.ptr]
                    /\ IF r.ptr = NULL
                       THEN pc' = "cleanup" /\ Fail(lv)
                       ELSE pc' = AfterLevel(lv) /\ UNCHANGED trace
             ELSE pc' = AfterLevel(lv) /\ UNCHANGED <<heap, local, trace>>
          /\ UNCHANGED <<hw, affinity, global, entry, calls>>
       \/ LevelCount(local, lv) # 0 /\ Aborts

\* the heap after the build loop has stored into the local arrays; the
\* arrays it stored past the end of are marked
WriteBack(h, loc, b) ==
    LET w ==
          [p \in DOMAIN h |->
             IF p = loc.processors THEN [h[p] EXCEPT !.data = b.processors]
             ELSE IF p = loc.cores THEN [h[p] EXCEPT !.data = b.cores]
             ELSE IF p = loc.packages THEN [h[p] EXCEPT !.data = b.packages]
             ELSE IF p = loc.l1i THEN [h[p] EXCEPT !.data = b.l1i]
             ELSE IF p = loc.l1d THEN [h[p] EXCEPT !.data = b.l1d]
             ELSE IF p = loc.l2 THEN [h[p] EXCEPT !.data = b.l2]
             ELSE IF p = loc.l3 THEN [h[p] EXCEPT !.data = b.l3]
             ELSE IF p = loc.l4 THEN [h[p] EXCEPT !.data = b.l4]
             ELSE IF p = loc.linux_cpu_to_processor_map
                  THEN [h[p] EXCEPT !.data = b.linux_cpu_to_processor_map]
             ELSE IF p = loc.linux_cpu_to_core_map
                  THEN [h[p] EXCEPT !.data = b.linux_cpu_to_core_map]
             ELSE h[p]]
    IN  [p \in DOMAIN h |->
           IF \E e \in b.oob : loc[e[1]] = p THEN [w[p] EXCEPT !.overrun = TRUE] ELSE w[p]]

\* the build loop of lines 264-470 on the local arrays
BuildPass(adjacent) ==
    BuildLoop(BuildInit(local, heap, adjacent), Data(heap, local.x86_processors), 0, local)

\* lines 264-470: the build pass.  After a store outside an array's extent
\* the call goes on with what the store did (it landed in memory nothing
\* uses, or in the blocks behind the array), or the process is terminated.
Build ==
    /\ pc = "build"
    /\ \/ /\ \E adjacent \in BOOLEAN : \E b \in {BuildPass(adjacent)} :
               /\ heap' = WriteBack(heap, local, b)
               /\ trace' = [trace EXCEPT !.oob = b.oob,
                               !.built = [k \in GroupKeys |->
                                            IF k = "cores" THEN U32Inc(b.core_index)
                                            ELSE IF k = "packages" THEN U32Inc(b.package_index)
                                            ELSE U32Inc(b.index[k])]]
          /\ pc' = "commit"
          /\ UNCHANGED <<hw, affinity, local, global, entry, calls>>
       \/ BuildPass(FALSE).oob # {} /\ Terminated

CommitKeepsCores ==
    /\ pc = "commit"
    /\ global' =
         [cpuinfo_linux_cpu_to_processor_map |-> local.linux_cpu_to_processor_map,
          cpuinfo_linux_cpu_to_core_map |-> local.linux_cpu_to_core_map,
          cpuinfo_processors |-> local.processors,
          cpuinfo_cores |-> local.cores,
          cpuinfo_packages |-> local.packages,
          cpuinfo_cache |-> [lv \in LevelSet |-> local[lv]],
          cpuinfo_processors_count |-> local.processors_count,
          cpuinfo_cores_count |-> local.cores_count,
          cpuinfo_packages_count |-> local.packages_count,
          cpuinfo_cache_count |-> [lv \in LevelSet |-> LevelCount(local, lv)]]
    /\ local' = [local EXCEPT !.linux_cpu_to_processor_map = NULL,
                              !.linux_cpu_to_core_map = NULL,
                              !.processors = NULL, !.packages = NULL,
                              !.l1i = NULL, !.l1d = NULL, !.l2 = NULL, !.l3 = NULL, !.l4 = NULL]
    /\ trace' = [trace EXCEPT !.committed = TRUE]
    /\ pc' = "cleanup"
    /\ UNCHANGED <<hw, affinity, heap, entry, calls>>

\* lines 476-503
Commit ==
    /\ pc = "commit"
    /\ global' =
         [cpuinfo_linux_cpu_to_processor_map |-> local.linux_cpu_to_processor_map,
          cpuinfo_linux_cpu_to_core_map |-> local.linux_cpu_to_core_map,
          cpuinfo_processors |-> local.processors,
          cpuinfo_cores |-> local.cores,
          cpuinfo_packages |-> local.packages,
          cpuinfo_cache |-> [lv \in LevelSet |-> local[lv]],
          cpuinfo_processors_count |-> local.processors_count,
          cpuinfo_cores_count |-> local.cores_count,
          cpuinfo_packages_count |-> local.packages_count,
          cpuinfo_cache_count |-> [lv \in LevelSet |-> LevelCount(local, lv)]]
    /\ local' = [local EXCEPT !.linux_cpu_to_processor_map = NULL,
                              !.linux_cpu_to_core_map = NULL,
                              !.processors = NULL, !.cores = NULL, !.packages = NULL,
                              !.l1i = NULL, !.l1d = NULL, !.l2 = NULL, !.l3 = NULL, !.l4 = NULL]
    /\ trace' = [trace EXCEPT !.committed = TRUE]
    /\ pc' = "cleanup"
    /\ UNCHANGED <<hw, affinity, heap, entry, calls>>

LocalPointersLeakCores(loc) ==
    <<loc.linux_cpu_to_processor_map, loc.linux_cpu_to_core_map, loc.x86_processors,
      loc.processors, loc.packages, loc.l1i, loc.l1d, loc.l2, loc.l3, loc.l4>>

LocalPointers(loc) ==
    <<loc.linux_cpu_to_processor_map, loc.linux_cpu_to_core_map, loc.x86_processors,
      loc.processors, loc.cores, loc.packages, loc.l1i, loc.l1d, loc.l2, loc.l3, loc.l4>>

RestoreAffinityWrongMask(ok) ==
    /\ affinity' = IF ok THEN local.processors_set ELSE affinity
    /\ trace' = [trace EXCEPT !.restore = IF ok THEN "ok" ELSE "failed"]

\* the sched_setaffinity of lines 506-509: it restores old_affinity or fails
RestoreAffinity(ok) ==
    /\ affinity' = IF ok THEN local.old_affinity ELSE affinity
    /\ trace' = [trace EXCEPT !.restore = IF ok THEN "ok" ELSE "failed"]

CleanupRestoreFailureIsFatal ==
    /\ pc = "cleanup"
    /\ \E ok \in BOOLEAN :
         /\ RestoreAffinity(ok)
         /\ heap' = IF ok THEN FreeAll(heap, LocalPointers(local)) ELSE heap
         /\ global' = IF ok THEN global ELSE entry.global
    /\ local' = LocalInit
    /\ pc' = "returned"
    /\ UNCHANGED <<hw, entry, calls>>

\* lines 505-522
Cleanup ==
    /\ pc = "cleanup"
    /\ \/ /\ \E ok \in BOOLEAN : RestoreAffinity(ok)
          /\ heap' = FreeAll(heap, LocalPointers(local))
          /\ local' = LocalInit
          /\ pc' = "returned"
          /\ UNCHANGED <<hw, global, entry, calls>>
       \/ {k \in 1..Len(LocalPointers(local)) : LocalPointers(local)[k] # NULL} # {} /\ Aborts

Next ==
    \/ Enter
    \/ AllocX86
    \/ Pin
    \/ SortAllocProcessors
    \/ CountAllocProcessorMap
    \/ AllocCoreMap
    \/ AllocCores
    \/ AllocPackages
    \/ \E lv \in LevelSet : AllocCache(lv)
    \/ Build
    \/ Commit
    \/ Cleanup

Spec == Init /\ [][Next]_vars

\* the machines whose identifiers are drawn from every value an unsigned
\* 32-bit identifier can take at the ends of its range: 0..MaxApicId and
\* UINT32_MAX
InitAny == InitWith(Machines((0..MaxApicId) \cup {UINT32_MAX}))

\* the program on these machines
SpecAny == InitAny /\ [][Next]_vars

\* the collection loop with a describer that can fail
PinDescriber == PinWith(BOOLEAN)

NextDescriber ==
    \/ Enter
    \/ AllocX86
    \/ PinDescriber
    \/ SortAllocProcessors
    \/ CountAllocProcessorMap
    \/ AllocCoreMap
    \/ AllocCores
    \/ AllocPackages
    \/ \E lv \in LevelSet : AllocCache(lv)
    \/ Build
    \/ Commit
    \/ Cleanup

\* the machines of Init whose processors all report every cache level
InitDescriber ==
    InitWith({m \in Machines(0..MaxApicId) :
                \A c \in m.present : \A lv \in LevelSet : m.desc[c].cache[lv].size # 0})

\* the program on these machines with a describer that can fail
SpecDescriber == InitDescriber /\ [][NextDescriber]_vars

TypeOK == pc \in {"entry", "alloc_x86", "pin", "count", "alloc_core_map", "alloc_cores",
                  "alloc_packages", "alloc_l1i", "alloc_l1d", "alloc_l2", "alloc_l3", "alloc_l4",
                  "build", "commit", "cleanup", "returned", "crashed"}

\* ------------------------------------------------------ published snapshot
Returned == pc = "returned"

Failed == Returned /\ trace.failed # ""

Success == Returned /\ trace.committed

Procs == Data(heap, global.cpuinfo_processors)

Cores == Data(heap, global.cpuinfo_cores)

Pkgs == Data(heap, global.cpuinfo_packages)

CacheArr(lv) == Data(heap, global.cpuinfo_cache[lv])

\* blocks allocated by the current call
AttemptBlocks == (entry.heap_len + 1)..Len(heap)

\* the range fields of r hold the numbers the build pass gave them: no
\* pointer was stored over them.  The halves of an address are not taken for
\* a start index and a count: they equal the numbers the build pass computed
\* only for an array at the one address whose halves are those numbers.
Counted(r) == ~IsAddressWord(r.processor_start) /\ ~IsAddressWord(r.processor_count)

ProcRange(r) == r.processor_start..(r.processor_start + r.processor_count - 1)

\* ------------------------------------------------------------------ claims

\* C1: when a call returns after any step failed, every process-wide snapshot
\* variable has exactly the value it had before the call.
C1_FailureLeavesGlobalsUnchanged == Failed => global = entry.global

\* a second call that fails on a cache-level allocation, or on pinning, after
\* a first call has published a snapshot
C1_Witness ==
    /\ Failed
    /\ trace.failed \in LevelSet \cup {"sched_setaffinity"}
    /\ entry.global.cpuinfo_processors # NULL
    /\ global = entry.global

\* C2: when a call returns after an allocation failed, every block allocated
\* earlier in that call has been freed exactly once, and no block at all has
\* been freed twice.
C2_FailureFreesAttempt ==
    Failed =>
      /\ \A p \in AttemptBlocks : ~heap[p].live /\ heap[p].frees = 1
      /\ \A p \in DOMAIN heap : heap[p].frees <= 1

\* the last allocation (L4) fails after ten blocks were allocated
C2_Witness ==
    /\ Failed
    /\ trace.failed = "l4"
    /\ Cardinality(AttemptBlocks) = 10
    /\ \A p \in AttemptBlocks : ~heap[p].live /\ heap[p].frees = 1

\* C3: at every return the saved mask has been restored: a call that got past
\* sched_getaffinity has issued the final sched_setaffinity, and if that
\* succeeded (or the affinity was never touched) the affinity equals the
\* affinity at entry.
C3_AffinityRestored ==
    Returned /\ calls > 0 =>
      /\ trace.failed # "sched_getaffinity" => trace.restore # "none"
      /\ trace.restore # "failed" => affinity = entry.affinity

\* pinning fails for a later id after an earlier pin changed the affinity
C3_Witness ==
    /\ Returned
    /\ trace.pinned
    /\ trace.failed = "sched_setaffinity"
    /\ trace.restore = "ok"
    /\ affinity = entry.affinity

\* the records of arr cover 0..n-1 in order, without gap or overlap
PartitionsProcessors(arr, n) ==
    IF n = 0 THEN Len(arr) = 0
    ELSE /\ Len(arr) >= 1
         /\ \A k \in 1..Len(arr) : Counted(arr[k])
         /\ arr[1].processor_start = 0
         /\ \A k \in 1..Len(arr) : arr[k].processor_count >= 1
         /\ \A k \in 1..(Len(arr) - 1) :
              arr[k + 1].processor_start = arr[k].processor_start + arr[k].processor_count
         /\ arr[Len(arr)].processor_start + arr[Len(arr)].processor_count = n

\* r refers to the record of the array at pointer blk whose range contains i
RefersToOwner(r, blk, arr, i) ==
    /\ r.blk = blk
    /\ InExtent(arr, r.idx)
    /\ Counted(arr[r.idx + 1])
    /\ i \in ProcRange(arr[r.idx + 1])

\* C4: after a successful construction the published cores' processor ranges
\* partition 0..N-1, so do the packages' ranges, and every processor refers to
\* the core and the package whose range contains it.
C4_CoresAndPackagesPartition ==
    Success =>
      LET n == global.cpuinfo_processors_count
      IN  /\ Len(Procs) = n
          /\ Len(Cores) = global.cpuinfo_cores_count
          /\ Len(Pkgs) = global.cpuinfo_packages_count
          /\ PartitionsProcessors(Cores, n)
          /\ PartitionsProcessors(Pkgs, n)
          /\ \A i \in 0..(n - 1) :
               /\ RefersToOwner(Procs[i + 1].core, global.cpuinfo_cores, Cores, i)
               /\ RefersToOwner(Procs[i + 1].package, global.cpuinfo_packages, Pkgs, i)

\* the descriptor behind the published processor i
DescOf(i) == hw.desc[Procs[i + 1].linux_id]

Participants(lv) == {i \in 0..(Len(Procs) - 1) : DescOf(i).cache[lv].size # 0}

\* C5: after a successful construction, at every level the published cache
\* records have pairwise disjoint processor ranges whose union is the set of
\* processors with a non-zero size at that level (L1I like the other levels).
C5_CacheRangesPartitionParticipants ==
    Success =>
      \A lv \in LevelSet :
        LET arr == CacheArr(lv)
        IN  /\ Len(arr) = global.cpuinfo_cache_count[lv]
            /\ \A j, k \in 1..Len(arr) :
                 j # k => ProcRange(arr[j]) \cap ProcRange(arr[k]) = {}
            /\ UNION {ProcRange(arr[k]) : k \in 1..Len(arr)} = Participants(lv)

\* C6: after a successful construction, every processor with a non-zero size
\* at a level refers, for that level, to the cache record whose range contains it.
C6_CacheReferenceIsOwner ==
    Success =>
      \A lv \in LevelSet : \A i \in Participants(lv) :
        RefersToOwner(Procs[i + 1].cache[lv], global.cpuinfo_cache[lv], CacheArr(lv), i)

\* three sorted descriptors with (size > 0, id X), (size 0), (size > 0, id X) at lv
C7_Scenario(lv) ==
    /\ Len(Procs) = 3
    /\ DescOf(0).cache[lv].size # 0
    /\ DescOf(1).cache[lv].size = 0
    /\ DescOf(2).cache[lv].size # 0
    /\ CacheId(DescOf(0), lv) = CacheId(DescOf(2), lv)

\* C7: two runs of one sharing id separated by a processor of size 0 are
\* counted as 2 and published as two cache records.
C7_AbsentProcessorSplitsRuns ==
    Success =>
      \A lv \in LevelSet :
        C7_Scenario(lv) =>
          /\ global.cpuinfo_cache_count[lv] = 2
          /\ Len(CacheArr(lv)) = 2
          /\ CacheArr(lv)[1].processor_start = 0
          /\ CacheArr(lv)[2].processor_start = 2

\* the core-grouping ids of the machine's processors
CoreGroupIds == {CoreId(DescOf(i)) : i \in 0..(Len(Procs) - 1)}

\* C8: after a successful construction the processors of each core-grouping id
\* are the processor range of exactly one published core record, and the
\* published core count is the number of distinct core-grouping ids.
C8_OneCorePerGroupId ==
    Success =>
      /\ global.cpuinfo_cores_count = Cardinality(CoreGroupIds)
      /\ Len(Cores) = Cardinality(CoreGroupIds)
      /\ \A g \in CoreGroupIds :
           LET members == {i \in 0..(Len(Procs) - 1) : CoreId(DescOf(i)) = g}
               records == {k \in 1..Len(Cores) :
                             ~IsAddressWord(Cores[k].core_id) /\ Cores[k].core_id = g}
           IN  /\ Cardinality(records) = 1
               /\ \A k \in records : Counted(Cores[k]) /\ ProcRange(Cores[k]) = members

ProcessorMap == Data(heap, global.cpuinfo_linux_cpu_to_processor_map)

CoreMap == Data(heap, global.cpuinfo_linux_cpu_to_core_map)

\* C9: after a successful construction, for every enumerated logical id c the
\* processor table at key c refers to the processor whose linux_id is c and
\* the core table at key c refers to the core whose range contains it.
C9_LookupTablesByLinuxId ==
    Success =>
      \A c \in hw.present \cap hw.possible :
        /\ InExtent(ProcessorMap, c)
        /\ ProcessorMap[c + 1].blk = global.cpuinfo_processors
        /\ InExtent(Procs, ProcessorMap[c + 1].idx)
        /\ Procs[ProcessorMap[c + 1].idx + 1].linux_id = c
        /\ InExtent(CoreMap, c)
        /\ RefersToOwner(CoreMap[c + 1], global.cpuinfo_cores, Cores, ProcessorMap[c + 1].idx)

\* the indices of the published cores that refer to package p
CoresOf(p) == {k \in 0..(Len(Cores) - 1) : Cores[k + 1].package = Ref(global.cpuinfo_packages, p)}

CoreRange(r) == r.core_start..(r.core_start + r.core_count - 1)

\* C10: after a successful construction every package's core_count is the
\* number of cores that refer to it, those cores are core_start..core_start +
\* core_count - 1, every core refers to the package whose processor range
\* contains the core's, and the packages' core ranges partition the cores.
C10_PackagesOwnCoreRanges ==
    Success =>
      /\ \A p \in 0..(Len(Pkgs) - 1) :
           /\ Pkgs[p + 1].core_count = Cardinality(CoresOf(p))
           /\ CoreRange(Pkgs[p + 1]) = CoresOf(p)
           /\ Pkgs[p + 1].core_count >= 1
      /\ \A k \in 0..(Len(Cores) - 1) :
           /\ Cores[k + 1].package.blk = global.cpuinfo_packages
           /\ InExtent(Pkgs, Cores[k + 1].package.idx)
           /\ Counted(Cores[k + 1])
           /\ ProcRange(Cores[k + 1]) \subseteq ProcRange(Pkgs[Cores[k + 1].package.idx + 1])
      /\ Len(Pkgs) > 0 => Pkgs[1].core_start = 0
      /\ \A p \in 1..(Len(Pkgs) - 1) :
           Pkgs[p + 1].core_start = Pkgs[p].core_start + Pkgs[p].core_count
      /\ Len(Pkgs) > 0 =>
           Pkgs[Len(Pkgs)].core_start + Pkgs[Len(Pkgs)].core_count = global.cpuinfo_cores_count

\* C11: in a successful construction a level at which every descriptor
\* reports size 0 is published with count 0 and a NULL array, and every
\* processor whose descriptor reports size 0 at a level has the null cache
\* reference for that level.
C11_AbsentLevelAndAbsentReference ==
    Success =>
      \A lv \in LevelSet :
        /\ Participants(lv) = {} =>
             /\ global.cpuinfo_cache_count[lv] = 0
             /\ global.cpuinfo_cache[lv] = NULL
        /\ \A i \in 0..(Len(Procs) - 1) :
             DescOf(i).cache[lv].size = 0 => Procs[i + 1].cache[lv] = NullRef

\* three processors that report the inner levels and no L3 or L4: the call
\* succeeds, L1D is published and L3 is published as absent
C11_Witness ==
    /\ Success
    /\ Len(Procs) = 3
    /\ \A i \in 0..2 : DescOf(i).cache["l3"].size = 0 /\ DescOf(i).cache["l1d"].size # 0
    /\ global.cpuinfo_cache_count["l1d"] > 0 /\ global.cpuinfo_cache["l1d"] # NULL
    /\ global.cpuinfo_cache_count["l3"] = 0 /\ global.cpuinfo_cache["l3"] = NULL
    /\ \A i \in 0..2 : Procs[i + 1].cache["l3"] = NullRef

\* C12: when no logical id is both present and possible, a call that got past
\* sched_getaffinity returns on the commit path: it publishes empty arrays
\* and counts 0, whatever the zero-sized allocations return.
C12_EmptySetIsZeroObjectConstruction ==
    Returned /\ calls > 0 /\ trace.failed # "sched_getaffinity"
             /\ hw.present \cap hw.possible = {} =>
      /\ trace.committed
      /\ trace.failed = ""
      /\ global.cpuinfo_processors_count = 0
      /\ global.cpuinfo_cores_count = 0
      /\ global.cpuinfo_packages_count = 0
      /\ \A lv \in LevelSet : global.cpuinfo_cache_count[lv] = 0
      /\ Len(Procs) = 0 /\ Len(Cores) = 0 /\ Len(Pkgs) = 0

\* the fields x and y hold the same value.  Two words of addresses are the
\* same when they are the same half of the same address with the same
\* amount added; a word of an address is not the number the other call's
\* build pass stored.
SameWord(x, y) == IF IsAddressWord(x) = IsAddressWord(y) THEN x = y ELSE FALSE

\* the records at pointers p and q have the same values in the fields fs
SameFields(p, q, fs) ==
    /\ Len(Data(heap, p)) = Len(Data(heap, q))
    /\ \A k \in 1..Len(Data(heap, p)) : \A f \in fs :
         SameWord(Data(heap, p)[k][f], Data(heap, q)[k][f])

RangeFields == {"processor_start", "processor_count"}

\* the snapshots the globals g and h publish have the same shape: the same
\* counts and the same processor and core ranges
SameShape(g, h) ==
    /\ g.cpuinfo_processors_count = h.cpuinfo_processors_count
    /\ g.cpuinfo_cores_count = h.cpuinfo_cores_count
    /\ g.cpuinfo_packages_count = h.cpuinfo_packages_count
    /\ g.cpuinfo_cache_count = h.cpuinfo_cache_count
    /\ Len(Data(heap, g.cpuinfo_processors)) = Len(Data(heap, h.cpuinfo_processors))
    /\ SameFields(g.cpuinfo_cores, h.cpuinfo_cores, RangeFields)
    /\ SameFields(g.cpuinfo_packages, h.cpuinfo_packages,
                  RangeFields \cup {"core_start", "core_count"})
    /\ \A lv \in LevelSet : SameFields(g.cpuinfo_cache[lv], h.cpuinfo_cache[lv], RangeFields)

\* C13: a call that succeeds after an earlier successful call on the same
\* raw descriptors publishes the same counts and the same processor and core
\* ranges as the snapshot that was published when it started.
C13_SecondRunSameShape ==
    Success /\ calls >= 2 => SameShape(global, entry.global)

\* the describer failed for some logical id during the current call
DescriberFailed == \E k \in 1..Len(trace.described) : ~trace.described[k].ok

\* C14: when the describer fails for a logical id the construction fails: the
\* call returns with nothing published, the globals as they were at entry and
\* every block of the call freed.
C14_DescriberFailureIsConstructionFailure ==
    Returned /\ DescriberFailed =>
      /\ ~trace.committed
      /\ trace.failed # ""
      /\ global = entry.global
      /\ \A p \in AttemptBlocks : ~heap[p].live

\* C15: when the build pass has run, for every grouping key (cores, packages
\* and each cache level) the number of records it initialised equals the
\* count the counting pass returned for that key, and no store of a record
\* went outside the array of that key.
C15_BuildAgreesWithCount ==
    pc = "commit" =>
      /\ trace.built["cores"] = local.cores_count
      /\ trace.built["packages"] = local.packages_count
      /\ \A lv \in LevelSet : trace.built[lv] = LevelCount(local, lv)
      /\ \A e \in trace.oob : e[1] \notin GroupKeys

\* C16: when the build pass has run, every store it made to the two lookup
\* tables was inside the table: the linux_id used as index is below the
\* number of entries the table was allocated with.
C16_LookupTableWritesInExtent ==
    pc = "commit" =>
      \A e \in trace.oob :
        e[1] \notin {"linux_cpu_to_processor_map", "linux_cpu_to_core_map"}

\* the arrays the globals publish
Published ==
    ({global.cpuinfo_linux_cpu_to_processor_map, global.cpuinfo_linux_cpu_to_core_map,
      global.cpuinfo_processors, global.cpuinfo_cores, global.cpuinfo_packages}
     \cup {global.cpuinfo_cache[lv] : lv \in LevelSet}) \ {NULL}

\* C17: when a call returns after its commit, every array it published is
\* still allocated and was never freed, the only block of the call that was
\* freed is the raw descriptor array, and each published count is the length
\* of the published array.
C17_PublishedArraysSurviveCleanup ==
    Success =>
      /\ Published \subseteq AttemptBlocks
      /\ \A p \in Published : heap[p].live /\ heap[p].frees = 0
      /\ Cardinality(AttemptBlocks \ Published) = 1
      /\ \A p \in AttemptBlocks \ Published : ~heap[p].live /\ heap[p].frees = 1
      /\ Len(Procs) = global.cpuinfo_processors_count
      /\ Len(Cores) = global.cpuinfo_cores_count
      /\ Len(Pkgs) = global.cpuinfo_packages_count
      /\ \A lv \in LevelSet : Len(CacheArr(lv)) = global.cpuinfo_cache_count[lv]

\* a successful call on three processors that published all ten arrays: the
\* call allocated eleven blocks and the raw descriptor array is the one freed
C17_Witness ==
    /\ Success
    /\ global.cpuinfo_processors_count = 3
    /\ Cardinality(Published) = 10
    /\ Cardinality(AttemptBlocks) = 11
    /\ \E p \in AttemptBlocks : ~heap[p].live /\ Len(heap[p].data) = 3
    /\ \A p \in Published : heap[p].live

\* the logical ids the describer was invoked for, in order of invocation
DescribedCpus == [k \in 1..Len(trace.described) |-> trace.described[k].cpu]

\* C18: the describer is invoked for the ids of the processor set in strictly
\* ascending order without skipping any; at each invocation the thread is
\* pinned to exactly that id and the descriptor is tagged with it; when a pin
\* fails the describer is invoked for neither that id nor a later one and the
\* call goes to the rollback; a call that gets past the collection has
\* visited every id.
C18_CollectionPinsAscending ==
    LET log == trace.described
        set == hw.present \cap hw.possible
    IN  /\ \A k \in 1..Len(log) :
             /\ log[k].cpu \in set
             /\ log[k].affinity = {log[k].cpu}
             /\ log[k].linux_id = log[k].cpu
             /\ \A c \in set : c < log[k].cpu => \E j \in 1..(k - 1) : log[j].cpu = c
        /\ \A k \in 1..(Len(log) - 1) : log[k].cpu < log[k + 1].cpu
        /\ trace.failed = "sched_setaffinity" =>
             /\ pc \in {"cleanup", "returned"}
             /\ ~trace.committed
             /\ Len(log) < Cardinality(set)
        /\ pc \in {"count", "build", "commit"} \/ trace.committed =>
             Len(log) = Cardinality(set)

\* ids 0, 1 and 2: the describer ran pinned to 0 and then to 1, the pin to 2
\* failed and the call returned through the rollback
C18_Witness ==
    /\ Returned
    /\ hw.present \cap hw.possible = {0, 1, 2}
    /\ trace.failed = "sched_setaffinity"
    /\ DescribedCpus = <<0, 1>>
    /\ trace.described[2].affinity = {1}
    /\ ~trace.committed

\* C19: when the sched_setaffinity that restores the original mask fails, the
\* call ends as it would have otherwise: after a commit the snapshot of this
\* call is published and its arrays are allocated; after a failure the
\* globals are as at entry and every block of the call has been freed once.
C19_RestoreFailureNotFatal ==
    Returned /\ trace.restore = "failed" =>
      /\ trace.failed = "" =>
           /\ trace.committed
           /\ global.cpuinfo_processors \in AttemptBlocks
           /\ global.cpuinfo_processors_count = Cardinality(hw.present \cap hw.possible)
           /\ \A p \in Published : p \in AttemptBlocks /\ heap[p].live
      /\ trace.failed # "" =>
           /\ ~trace.committed
           /\ global = entry.global
           /\ \A p \in AttemptBlocks : ~heap[p].live /\ heap[p].frees = 1

\* a successful call on two processors whose final restoration failed: the
\* thread is left pinned to the last id and the snapshot is published
C19_Witness ==
    /\ Success
    /\ trace.restore = "failed"
    /\ hw.present \cap hw.possible = {0, 2}
    /\ affinity = {2}
    /\ entry.affinity = LinuxIds
    /\ global.cpuinfo_processors_count = 2
    /\ heap[global.cpuinfo_processors].live

\* C20: when the build pass has run on at least one processor, the first
\* sorted descriptor started a new core and a new package: cores_count and
\* packages_count are at least 1, processor 0 refers to core 0 and package 0,
\* and no store used core_index or package_index at its initial UINT32_MAX.
C20_SentinelNeverCollides ==
    pc = "commit" /\ local.processors_count >= 1 =>
      /\ local.cores_count >= 1
      /\ local.packages_count >= 1
      /\ trace.built["cores"] >= 1
      /\ trace.built["packages"] >= 1
      /\ Data(heap, local.processors)[1].core = Ref(local.cores, 0)
      /\ Data(heap, local.processors)[1].package = Ref(local.packages, 0)
      /\ <<"cores", UINT32_MAX>> \notin trace.oob
      /\ <<"packages", UINT32_MAX>> \notin trace.oob

====
